---- MODULE Spec2Model ----
(***************************************************************************)
(* Model of the PocketBase sidecar supervisor of src-tauri/src/lib.rs:     *)
(* the setup hook (data directory, port probe, spawn, store, output pump)  *)
(* and the window-destruction handler (take, kill).                        *)
(*                                                                         *)
(* Option<T> values are sequences of length at most one: None is <<>>,     *)
(* Some(x) is <<x>>.  Byte strings and decoded strings are sequences of    *)
(* numbers (bytes, resp. Unicode scalar values).                           *)
(***************************************************************************)
EXTENDS Integers, Sequences, FiniteSets, TLC

\* ---------------------------------------------------------------- bounds
\* Number of WindowEvent::Destroyed deliveries considered.
MaxDestroyed == 2
\* Number of output events (lines, errors, other events) the child sends.
MaxEvents == 1
\* Capacity of the event channel between the child and the pump.
MaxChan == 1
\* Longest output line enumerated by the classification specification.
MaxLineLen == 5
\* Number of is_port_available calls of the probe specification.
MaxProbes == 3

\* ------------------------------------------------------------- constants
\* The port probed by the setup hook and passed in --http.
PocketBasePort == 8090

None == <<>>
Some(x) == <<x>>

Handlers == 1..MaxDestroyed

\* Rust editions the crate may be built with.  They differ in when the
\* temporary MutexGuard of an `if let` scrutinee is dropped on the else path.
Editions == {2021, 2024}

\* The process id of the one child the setup hook can spawn.
ChildPid == 1

\* The setup hook as owner of the mutex and writer of log records; a
\* window-destruction handler is named by its number in Handlers.
SetupHook == 0

VARIABLES
    edition,      \* edition the crate is built with
    bound_ports,  \* ports of 127.0.0.1 some listener is bound to
    setup_pc,     \* position of the setup hook
    created,      \* outcome of create_dir_all: "none" | "ok" | "failed"
    probed,       \* outcome of is_port_available(8090): "none" | "free" | "busy"
    probes,       \* calls of is_port_available: port, ports bound before and after, result
    env_data_dir, \* what app.path().app_data_dir() yields (Option of a path)
    data_dir,     \* the setup hook's local `data_dir` (Option of a string)
    spawn_args,   \* argument lists of the sidecar commands spawned, in call order
    spawns,       \* outcomes of sidecar_command.spawn(), in call order
    local_child,  \* the setup hook's local `child` (Option)
    state_child,  \* PocketBaseState.child (Option)
    lock,         \* owner of the Mutex<PocketBaseState> (Option)
    stores,       \* number of assignments to PocketBaseState.child by the hook
    overwrites,   \* number of those that replaced a Some
    hpc,          \* position of each window-destruction handler
    taken,        \* what each handler's take() returned (Option)
    after_setup,  \* whether the handler started after the hook returned Ok
    destroyed_at, \* proc as it was at the first Destroyed event after the hook: "none" until then
    take_order,   \* handlers in the order of their take()
    kills,        \* number of child.kill() calls of each handler
    kill_res,     \* result of the handler's kill: "none" | "ok" | "err"
    logs,         \* log records written by the hook and the handlers
    io,           \* I/O operations performed, with whether the lock was held
    proc,         \* the child process: "none" | "running" | "killed" | "exited"
    emitted,      \* number of output events the child has written
    chan,         \* events in flight on rx
    chan_closed,  \* all senders of rx dropped
    pump_pc,      \* the output pump task: "none" | "recv" | "done"
    pump_last,    \* the last event the pump handled and what it logged
    consumed      \* number of events the pump has received

vars == <<edition, env_data_dir, bound_ports, setup_pc, created, probed, probes,
          data_dir, spawn_args, spawns, local_child,
          state_child, lock, stores, overwrites, hpc, taken, after_setup, destroyed_at,
          take_order, kills, kill_res, logs, io, proc, emitted, chan,
          chan_closed, pump_pc, pump_last, consumed>>

setupVars == <<setup_pc, created, probed, probes, data_dir, spawn_args, spawns,
               local_child, stores, overwrites>>
handlerVars == <<hpc, taken, after_setup, destroyed_at, take_order, kills, kill_res>>
childVars == <<proc, emitted, chan, chan_closed>>
pumpVars == <<pump_pc, pump_last, consumed>>

\* ------------------------------------------------------------------ logging
\* A log macro call by `who`; the write is I/O, recorded with whether `who`
\* holds the state mutex while writing.
LogRec(who, level, msg) == [by |-> who, level |-> level, msg |-> msg]
IoRec(who, op) == [by |-> who, op |-> op, locked |-> (lock = Some(who))]

\* ---------------------------------------------------------------- strings
\* String::from_utf8_lossy on the byte strings that occur (ASCII bytes and
\* 0xFF): an ASCII byte decodes to itself, a byte that starts no valid
\* sequence to U+FFFD.
from_utf8_lossy(bytes) ==
    [i \in 1..Len(bytes) |-> IF bytes[i] < 128 THEN bytes[i] ELSE 65533]

\* Path::to_string_lossy, line 48: the bytes of the path, decoded lossily.
to_string_lossy(path) == from_utf8_lossy(path)

\* Application data directories the host may resolve, as bytes: "/d", and
\* "/" followed by 0xFF, a file name that is not valid UTF-8.
DataDirs == {<<47, 100>>, <<47, 255>>}
\* The one the lifecycle specification runs with.
UnicodeDataDirs == {<<47, 100>>}

\* line 60: the arguments of the sidecar command; "127.0.0.1:8090" is
\* spelled out character by character.
SidecarArgs(dir) ==
    <<"serve", "--http",
      <<49, 50, 55, 46, 48, 46, 48, 46, 49, 58, 56, 48, 57, 48>>,
      "--dir", dir>>

\* ------------------------------------------------------------- port probe
\* TcpListener::bind(("127.0.0.1", port)).is_ok(): the bind succeeds iff no
\* listener is bound to the port.
is_port_available(port) == port \notin bound_ports

\* bound_after_probe with the listener kept alive after the call.
bound_after_probe_Leaks(port) ==
    IF is_port_available(port)
      THEN bound_ports \cup {port}
      ELSE bound_ports

\* Ports bound once is_port_available(port) has returned: a listener that
\* was bound is dropped at the end of the statement of line 12.
bound_after_probe(port) ==
    IF is_port_available(port)
      THEN (bound_ports \cup {port}) \ {port}
      ELSE bound_ports

\* The record of one call of is_port_available.
ProbeRec(port) ==
    [port |-> port, before |-> bound_ports, result |-> is_port_available(port),
     after |-> bound_after_probe(port)]


\* ------------------------------------------------------------ setup hook
\* lines 35-41: the hook starts; app_data_dir() is resolved, `expect` panics
\* when the host cannot resolve it.  The host runs the hook during
\* initialization, while no window event is being handled.
SetupStart ==
    /\ setup_pc = "init"
    /\ \A h \in Handlers : hpc[h] \in {"idle", "done"}
    /\ setup_pc' = IF env_data_dir # None THEN "mkdir" ELSE "panicked"
    /\ logs' = logs \cup {LogRec(SetupHook, "Info", "Running setup hook")}
    /\ io' = io \cup {IoRec(SetupHook, "log")}
    /\ UNCHANGED <<edition, env_data_dir, bound_ports, created, probed, spawns, local_child,
                   state_child, lock, stores, overwrites>>
    /\ UNCHANGED <<handlerVars, childVars, pumpVars>>
    /\ UNCHANGED <<probes, data_dir, spawn_args>>

\* SetupCreateDir with the error logged but not returned.
SetupCreateDir_IgnoresError ==
    /\ setup_pc = "mkdir"
    /\ \E ok \in BOOLEAN :
         /\ created' = IF ok THEN "ok" ELSE "failed"
         /\ data_dir' = IF ok THEN Some(to_string_lossy(env_data_dir[1])) ELSE data_dir
         /\ setup_pc' = "probe"
         /\ logs' = logs \cup
              {IF ok THEN LogRec(SetupHook, "Info", "PocketBase data directory")
                     ELSE LogRec(SetupHook, "Error", "Failed to create app data dir")}
    /\ io' = io \cup {IoRec(SetupHook, "log")}
    /\ UNCHANGED <<edition, env_data_dir, bound_ports, probed, spawns, local_child,
                   state_child, lock, stores, overwrites>>
    /\ UNCHANGED <<handlerVars, childVars, pumpVars>>
    /\ UNCHANGED <<probes, spawn_args>>

\* lines 43-49: create_dir_all; an error is logged and returned.
SetupCreateDir ==
    /\ setup_pc = "mkdir"
    /\ \E ok \in BOOLEAN :
         /\ created' = IF ok THEN "ok" ELSE "failed"
         /\ data_dir' = IF ok THEN Some(to_string_lossy(env_data_dir[1])) ELSE data_dir
         /\ setup_pc' = IF ok THEN "probe" ELSE "ret_err"
         /\ logs' = logs \cup
              {IF ok THEN LogRec(SetupHook, "Info", "PocketBase data directory")
                     ELSE LogRec(SetupHook, "Error", "Failed to create app data dir")}
    /\ io' = io \cup {IoRec(SetupHook, "log")}
    /\ UNCHANGED <<edition, env_data_dir, bound_ports, probed, spawns, local_child,
                   state_child, lock, stores, overwrites>>
    /\ UNCHANGED <<handlerVars, childVars, pumpVars>>
    /\ UNCHANGED <<probes, spawn_args>>

\* SetupProbe with the spawn attempted whatever the probe says.
SetupProbe_IgnoresBusy ==
    /\ setup_pc = "probe"
    /\ LET available == is_port_available(PocketBasePort) IN
         /\ bound_ports' = bound_after_probe(PocketBasePort)
         /\ probes' = Append(probes, ProbeRec(PocketBasePort))
         /\ probed' = IF available THEN "free" ELSE "busy"
         /\ setup_pc' = "spawn"
         /\ logs' = logs \cup
              (IF available
                 THEN {LogRec(SetupHook, "Debug", "Port availability check"),
                       LogRec(SetupHook, "Info", "Starting PocketBase sidecar")}
                 ELSE {LogRec(SetupHook, "Debug", "Port availability check"),
                       LogRec(SetupHook, "Warn", "Port 8090 already in use"),
                       LogRec(SetupHook, "Info", "Skipping PocketBase sidecar spawn")})
    /\ io' = io \cup {IoRec(SetupHook, "log")}
    /\ UNCHANGED <<edition, env_data_dir, created, spawns, local_child, state_child, lock,
                   stores, overwrites>>
    /\ UNCHANGED <<handlerVars, childVars, pumpVars>>
    /\ UNCHANGED <<data_dir, spawn_args>>

\* lines 51-55 (and 11-15): the probe binds a listener and drops it at the
\* end of the statement; a busy port skips the spawn.
SetupProbe ==
    /\ setup_pc = "probe"
    /\ LET available == is_port_available(PocketBasePort) IN
         /\ bound_ports' = bound_after_probe(PocketBasePort)
         /\ probes' = Append(probes, ProbeRec(PocketBasePort))
         /\ probed' = IF available THEN "free" ELSE "busy"
         /\ setup_pc' = IF available THEN "spawn" ELSE "finish"
         /\ logs' = logs \cup
              (IF available
                 THEN {LogRec(SetupHook, "Debug", "Port availability check"),
                       LogRec(SetupHook, "Info", "Starting PocketBase sidecar")}
                 ELSE {LogRec(SetupHook, "Debug", "Port availability check"),
                       LogRec(SetupHook, "Warn", "Port 8090 already in use"),
                       LogRec(SetupHook, "Info", "Skipping PocketBase sidecar spawn")})
    /\ io' = io \cup {IoRec(SetupHook, "log")}
    /\ UNCHANGED <<edition, env_data_dir, created, spawns, local_child, state_child, lock,
                   stores, overwrites>>
    /\ UNCHANGED <<handlerVars, childVars, pumpVars>>
    /\ UNCHANGED <<data_dir, spawn_args>>

\* SetupSpawn with the spawn error logged but not returned.
SetupSpawn_IgnoresError ==
    /\ setup_pc = "spawn"
    /\ \E built \in BOOLEAN, ok \in BOOLEAN :
         IF ~built
           THEN /\ setup_pc' = "panicked"
                /\ UNCHANGED <<spawns, spawn_args, local_child, proc, logs, io>>
           ELSE /\ spawns' = Append(spawns, IF ok THEN "ok" ELSE "err")
                /\ spawn_args' = Append(spawn_args, SidecarArgs(data_dir[1]))
                /\ setup_pc' = "lock"
                /\ local_child' = IF ok THEN Some(ChildPid) ELSE None
                /\ proc' = IF ok THEN "running" ELSE proc
                /\ logs' = logs \cup
                     {IF ok THEN LogRec(SetupHook, "Info", "PocketBase sidecar spawned successfully")
                            ELSE LogRec(SetupHook, "Error", "Failed to spawn PocketBase sidecar")}
                /\ io' = io \cup {IoRec(SetupHook, "spawn"), IoRec(SetupHook, "log")}
    /\ UNCHANGED <<edition, env_data_dir, bound_ports, created, probed, state_child, lock,
                   stores, overwrites>>
    /\ UNCHANGED <<handlerVars, emitted, chan, chan_closed, pumpVars>>
    /\ UNCHANGED <<probes, data_dir>>

\* lines 56-70: the sidecar command is built (`expect` panics when it cannot
\* be) and spawned; a spawn error is logged and returned.
SetupSpawn ==
    /\ setup_pc = "spawn"
    /\ \E built \in BOOLEAN, ok \in BOOLEAN :
         IF ~built
           THEN /\ setup_pc' = "panicked"
                /\ UNCHANGED <<spawns, spawn_args, local_child, proc, logs, io>>
           ELSE /\ spawns' = Append(spawns, IF ok THEN "ok" ELSE "err")
                /\ spawn_args' = Append(spawn_args, SidecarArgs(data_dir[1]))
                /\ setup_pc' = IF ok THEN "lock" ELSE "ret_err"
                /\ local_child' = IF ok THEN Some(ChildPid) ELSE None
                /\ proc' = IF ok THEN "running" ELSE proc
                /\ logs' = logs \cup
                     {IF ok THEN LogRec(SetupHook, "Info", "PocketBase sidecar spawned successfully")
                            ELSE LogRec(SetupHook, "Error", "Failed to spawn PocketBase sidecar")}
                /\ io' = io \cup {IoRec(SetupHook, "spawn"), IoRec(SetupHook, "log")}
    /\ UNCHANGED <<edition, env_data_dir, bound_ports, created, probed, state_child, lock,
                   stores, overwrites>>
    /\ UNCHANGED <<handlerVars, emitted, chan, chan_closed, pumpVars>>
    /\ UNCHANGED <<probes, data_dir>>

\* line 74, state.lock().unwrap(): blocks until the mutex is free.
SetupLock ==
    /\ setup_pc = "lock"
    /\ lock = None
    /\ lock' = Some(SetupHook)
    /\ setup_pc' = "store"
    /\ UNCHANGED <<edition, env_data_dir, bound_ports, created, probed, spawns, local_child,
                   state_child, stores, overwrites, logs, io>>
    /\ UNCHANGED <<handlerVars, childVars, pumpVars>>
    /\ UNCHANGED <<probes, data_dir, spawn_args>>

\* SetupStore with the child dropped instead of stored.
SetupStore_Forgets ==
    /\ setup_pc = "store"
    /\ state_child' = state_child
    /\ local_child' = None
    /\ stores' = stores
    /\ overwrites' = IF state_child # None THEN overwrites + 1 ELSE overwrites
    /\ lock' = None
    /\ setup_pc' = "stored"
    /\ UNCHANGED <<edition, env_data_dir, bound_ports, created, probed, spawns, logs, io>>
    /\ UNCHANGED <<handlerVars, childVars, pumpVars>>
    /\ UNCHANGED <<probes, data_dir, spawn_args>>

\* line 74, `.child = Some(child);`: the assignment, then the temporary
\* guard is dropped at the end of the statement.
SetupStore ==
    /\ setup_pc = "store"
    /\ state_child' = local_child
    /\ local_child' = None
    /\ stores' = stores + 1
    /\ overwrites' = IF state_child # None THEN overwrites + 1 ELSE overwrites
    /\ lock' = None
    /\ setup_pc' = "stored"
    /\ UNCHANGED <<edition, env_data_dir, bound_ports, created, probed, spawns, logs, io>>
    /\ UNCHANGED <<handlerVars, childVars, pumpVars>>
    /\ UNCHANGED <<probes, data_dir, spawn_args>>

\* lines 75-114: debug log, the pump task is handed to the async runtime,
\* info log.
SetupLaunchPump ==
    /\ setup_pc = "stored"
    /\ pump_pc' = "recv"
    /\ logs' = logs \cup
         {LogRec(SetupHook, "Debug", "PocketBase child process stored in state"),
          LogRec(SetupHook, "Info", "PocketBase sidecar ready")}
    /\ io' = io \cup {IoRec(SetupHook, "log")}
    /\ setup_pc' = "finish"
    /\ UNCHANGED <<edition, env_data_dir, bound_ports, created, probed, spawns, local_child,
                   state_child, lock, stores, overwrites, pump_last, consumed>>
    /\ UNCHANGED <<handlerVars, childVars>>
    /\ UNCHANGED <<probes, data_dir, spawn_args>>

\* SetupFinish with the hook run once more instead of returning.
SetupFinish_Reruns ==
    /\ setup_pc = "finish"
    /\ logs' = logs \cup {LogRec(SetupHook, "Info", "Setup completed successfully")}
    /\ io' = io \cup {IoRec(SetupHook, "log")}
    /\ setup_pc' = "init"
    /\ UNCHANGED <<edition, env_data_dir, bound_ports, created, probed, spawns, local_child,
                   state_child, lock, stores, overwrites>>
    /\ UNCHANGED <<handlerVars, childVars, pumpVars>>
    /\ UNCHANGED <<probes, data_dir, spawn_args>>

\* lines 117-119: Ok(()).
SetupFinish ==
    /\ setup_pc = "finish"
    /\ logs' = logs \cup {LogRec(SetupHook, "Info", "Setup completed successfully")}
    /\ io' = io \cup {IoRec(SetupHook, "log")}
    /\ setup_pc' = "ret_ok"
    /\ UNCHANGED <<edition, env_data_dir, bound_ports, created, probed, spawns, local_child,
                   state_child, lock, stores, overwrites>>
    /\ UNCHANGED <<handlerVars, childVars, pumpVars>>
    /\ UNCHANGED <<probes, data_dir, spawn_args>>

\* ----------------------------------------------- window-destruction handler
\* lines 122-124: a Destroyed event is delivered; the host delivers window
\* events while the setup hook is not running.
HandlerStart(h) ==
    /\ hpc[h] = "idle"
    /\ setup_pc \in {"init", "ret_ok", "ret_err"}
    /\ hpc' = [hpc EXCEPT ![h] = "lock"]
    /\ after_setup' = [after_setup EXCEPT ![h] = (setup_pc = "ret_ok")]
    /\ destroyed_at' = IF destroyed_at = "none" /\ setup_pc = "ret_ok" THEN proc ELSE destroyed_at
    /\ logs' = logs \cup {LogRec(h, "Info", "Window destroyed - cleaning up")}
    /\ io' = io \cup {IoRec(h, "log")}
    /\ UNCHANGED <<edition, env_data_dir, bound_ports, state_child, lock, taken, take_order,
                   kills, kill_res>>
    /\ UNCHANGED <<setupVars, childVars, pumpVars>>

\* HandlerTake with the handle read but left in the state (no take()).
HandlerTake_NoClear(h) ==
    /\ hpc[h] = "lock"
    /\ lock = None
    /\ taken' = [taken EXCEPT ![h] = state_child]
    /\ state_child' = state_child
    /\ take_order' = Append(take_order, h)
    /\ hpc' = [hpc EXCEPT ![h] = IF state_child # None THEN "kill" ELSE "else"]
    /\ lock' = IF state_child = None /\ edition >= 2024 THEN None ELSE Some(h)
    /\ UNCHANGED <<edition, env_data_dir, bound_ports, after_setup, destroyed_at, kills,
                   kill_res, logs, io>>
    /\ UNCHANGED <<setupVars, childVars, pumpVars>>

\* HandlerTake with the kill skipped when the child has already exited.
HandlerTake_SkipsExited(h) ==
    /\ hpc[h] = "lock"
    /\ lock = None
    /\ taken' = [taken EXCEPT ![h] = state_child]
    /\ state_child' = None
    /\ take_order' = Append(take_order, h)
    /\ hpc' = [hpc EXCEPT ![h] = IF state_child # None /\ proc # "exited" THEN "kill" ELSE "else"]
    /\ lock' = IF state_child = None /\ edition >= 2024 THEN None ELSE Some(h)
    /\ UNCHANGED <<edition, env_data_dir, bound_ports, after_setup, destroyed_at, kills,
                   kill_res, logs, io>>
    /\ UNCHANGED <<setupVars, childVars, pumpVars>>

\* line 125, state.lock().unwrap().child.take(): the guard is a temporary of
\* the `if let` scrutinee.  It lives through the then-block; on the else
\* path it lives through the else-block up to edition 2021 and is dropped
\* before it from edition 2024.
HandlerTake(h) ==
    /\ hpc[h] = "lock"
    /\ lock = None
    /\ taken' = [taken EXCEPT ![h] = state_child]
    /\ state_child' = None
    /\ take_order' = Append(take_order, h)
    /\ hpc' = [hpc EXCEPT ![h] = IF state_child # None THEN "kill" ELSE "else"]
    /\ lock' = IF state_child = None /\ edition >= 2024 THEN None ELSE Some(h)
    /\ UNCHANGED <<edition, env_data_dir, bound_ports, after_setup, destroyed_at, kills,
                   kill_res, logs, io>>
    /\ UNCHANGED <<setupVars, childVars, pumpVars>>

\* HandlerKill with the handle put back into the state when kill fails.
HandlerKill_PutsBack(h) ==
    /\ hpc[h] = "kill"
    /\ \E ok \in BOOLEAN :
         /\ kill_res' = [kill_res EXCEPT ![h] = IF ok THEN "ok" ELSE "err"]
         /\ proc' = IF ok /\ proc = "running" THEN "killed" ELSE proc
         /\ state_child' = IF ok THEN state_child ELSE taken[h]
         /\ logs' = logs \cup
              {IF ok THEN LogRec(h, "Info", "PocketBase sidecar stopped successfully")
                     ELSE LogRec(h, "Error", "Failed to stop PocketBase sidecar")}
    /\ kills' = [kills EXCEPT ![h] = @ + 1]
    /\ io' = io \cup {IoRec(h, "kill"), IoRec(h, "log")}
    /\ hpc' = [hpc EXCEPT ![h] = "unlock"]
    /\ UNCHANGED <<edition, env_data_dir, bound_ports, lock, taken, after_setup,
                   destroyed_at,
                   take_order, emitted, chan, chan_closed>>
    /\ UNCHANGED <<setupVars, pumpVars>>

\* lines 126-129: child.kill() and the log of its result.  A successful kill
\* of a running child terminates it; a failed kill changes nothing.
HandlerKill(h) ==
    /\ hpc[h] = "kill"
    /\ \E ok \in BOOLEAN :
         /\ kill_res' = [kill_res EXCEPT ![h] = IF ok THEN "ok" ELSE "err"]
         /\ proc' = IF ok /\ proc = "running" THEN "killed" ELSE proc
         /\ logs' = logs \cup
              {IF ok THEN LogRec(h, "Info", "PocketBase sidecar stopped successfully")
                     ELSE LogRec(h, "Error", "Failed to stop PocketBase sidecar")}
    /\ kills' = [kills EXCEPT ![h] = @ + 1]
    /\ io' = io \cup {IoRec(h, "kill"), IoRec(h, "log")}
    /\ hpc' = [hpc EXCEPT ![h] = "unlock"]
    /\ UNCHANGED <<edition, env_data_dir, bound_ports, state_child, lock, taken, after_setup,
                   destroyed_at,
                   take_order, emitted, chan, chan_closed>>
    /\ UNCHANGED <<setupVars, pumpVars>>

\* HandlerElse with a kill attempted although nothing was taken.
HandlerElse_Kills(h) ==
    /\ hpc[h] = "else"
    /\ logs' = logs \cup {LogRec(h, "Debug", "No PocketBase child process to clean up")}
    /\ io' = io \cup {IoRec(h, "log")}
    /\ hpc' = [hpc EXCEPT ![h] = IF lock = Some(h) THEN "unlock" ELSE "done"]
    /\ UNCHANGED <<edition, env_data_dir, bound_ports, state_child, lock, taken, after_setup,
                   destroyed_at,
                   take_order, kill_res>>
    /\ kills' = [kills EXCEPT ![h] = @ + 1]
    /\ UNCHANGED <<setupVars, childVars, pumpVars>>

\* lines 130-132: nothing to clean up.
HandlerElse(h) ==
    /\ hpc[h] = "else"
    /\ logs' = logs \cup {LogRec(h, "Debug", "No PocketBase child process to clean up")}
    /\ io' = io \cup {IoRec(h, "log")}
    /\ hpc' = [hpc EXCEPT ![h] = IF lock = Some(h) THEN "unlock" ELSE "done"]
    /\ UNCHANGED <<edition, env_data_dir, bound_ports, state_child, lock, taken, after_setup,
                   destroyed_at,
                   take_order, kills, kill_res>>
    /\ UNCHANGED <<setupVars, childVars, pumpVars>>

\* HandlerUnlock with the taken handle stored back before the guard drops.
HandlerUnlock_Restores(h) ==
    /\ hpc[h] = "unlock"
    /\ lock' = IF lock = Some(h) THEN None ELSE lock
    /\ hpc' = [hpc EXCEPT ![h] = "done"]
    /\ state_child' = IF taken[h] # None THEN taken[h] ELSE state_child
    /\ UNCHANGED <<edition, env_data_dir, bound_ports, taken, after_setup,
                   destroyed_at,
                   take_order, kills, kill_res, logs, io>>
    /\ UNCHANGED <<setupVars, childVars, pumpVars>>

\* line 132/133: the end of the `if let` statement drops the guard.
HandlerUnlock(h) ==
    /\ hpc[h] = "unlock"
    /\ lock' = IF lock = Some(h) THEN None ELSE lock
    /\ hpc' = [hpc EXCEPT ![h] = "done"]
    /\ UNCHANGED <<edition, env_data_dir, bound_ports, state_child, taken, after_setup,
                   destroyed_at,
                   take_order, kills, kill_res, logs, io>>
    /\ UNCHANGED <<setupVars, childVars, pumpVars>>


\* ------------------------------------------------------------ child process
\* CommandEvent values: the event kind, the bytes of a Stdout/Stderr line or
\* the text of an Error, and the exit code of a Terminated (an Option).
Event(type, line, code) == [type |-> type, line |-> line, code |-> code]
NoEvent == Event("None", <<>>, None)

\* Exit codes a terminated child reports: none (killed by a signal), 0, 7, -1.
ExitCodes == {None, Some(0), Some(7), Some(-1)}

\* Lines written by the child in the lifecycle specification:
\* "error" and "ok" followed by a newline.
SampleLines == {<<101, 114, 114, 111, 114>>, <<111, 107, 10>>}

\* Bytes of the lines enumerated by the classification specification:
\* E e R r O o and 0xFF, which is not valid in UTF-8.
Alphabet == {69, 101, 82, 114, 79, 111, 255}
AllLines == UNION {[1..n -> Alphabet] : n \in 0..MaxLineLen}

OutputEvents(lines) ==
    {Event(t, l, None) : t \in {"Stdout", "Stderr"}, l \in lines}
      \cup {Event("Error", <<>>, None), Event("Other", <<>>, None)}
TerminatedEvents == {Event("Terminated", <<>>, c) : c \in ExitCodes}

\* One more event of the child's output reaches rx (line 62: rx is the
\* receiving end of the channel spawn() returns).  Nothing in lib.rs orders
\* the child's output before its Terminated event, so output may reach rx
\* as long as a sender is left.
ChildEmit ==
    /\ proc \in {"running", "killed", "exited"}
    /\ ~chan_closed
    /\ emitted < MaxEvents
    /\ Len(chan) < MaxChan
    /\ \E ev \in OutputEvents(SampleLines) : chan' = Append(chan, ev)
    /\ emitted' = emitted + 1
    /\ UNCHANGED <<edition, env_data_dir, bound_ports, state_child, lock, logs, io, proc,
                   chan_closed>>
    /\ UNCHANGED <<setupVars, handlerVars, pumpVars>>

\* The child exits, on its own or after a kill: Terminated with the exit
\* status is sent, or Error when waiting for the child failed.
ChildExit ==
    /\ proc \in {"running", "killed"}
    /\ Len(chan) < MaxChan
    /\ \E ev \in TerminatedEvents \cup {Event("Error", <<>>, None)} :
         chan' = Append(chan, ev)
    /\ proc' = "exited"
    /\ UNCHANGED <<edition, env_data_dir, bound_ports, state_child, lock, logs, io,
                   emitted, chan_closed>>
    /\ UNCHANGED <<setupVars, handlerVars, pumpVars>>

\* The last sender of rx is dropped once the child has exited.
ChildClose ==
    /\ proc = "exited"
    /\ ~chan_closed
    /\ chan_closed' = TRUE
    /\ UNCHANGED <<edition, env_data_dir, bound_ports, state_child, lock, logs, io,
                   proc, emitted, chan>>
    /\ UNCHANGED <<setupVars, handlerVars, pumpVars>>

\* -------------------------------------------------------- log classification
\* char::is_whitespace on the characters that occur: space, \t, \n, \r.
is_whitespace(c) == c \in {32, 9, 10, 13}

\* str::trim: leading and trailing whitespace removed.
trim(s) ==
    LET keep == {i \in 1..Len(s) : ~is_whitespace(s[i])} IN
      IF keep = {} THEN <<>>
      ELSE LET first == CHOOSE i \in keep : \A j \in keep : i <= j
               last  == CHOOSE i \in keep : \A j \in keep : j <= i
           IN SubSeq(s, first, last)

\* str::contains with a string pattern.
contains(hay, needle) ==
    \E i \in 1..(Len(hay) - Len(needle) + 1) :
        SubSeq(hay, i, i + Len(needle) - 1) = needle

\* The literals "Error" and "error" of line 88.
str_Error == <<69, 114, 114, 111, 114>>
str_error == <<101, 114, 114, 111, 114>>

\* lines 88-92: the level of a decoded Stderr line.
StderrLevel(output) ==
    IF contains(output, str_Error) \/ contains(output, str_error)
      THEN "Error" ELSE "Warn"

\* TerminatedLevel with a missing exit code treated as a failure.
TerminatedLevel_NoCodeIsError(code) ==
    IF code # None
      THEN IF code[1] = 0 THEN "Info" ELSE "Error"
      ELSE "Error"

\* lines 95-103: the level and message of a Terminated event.
TerminatedLevel(code) ==
    IF code # None
      THEN IF code[1] = 0 THEN "Info" ELSE "Error"
      ELSE "Warn"

TerminatedText(code) ==
    IF code # None
      THEN IF code[1] = 0 THEN "Process terminated cleanly (exit code: 0)"
                          ELSE "Process terminated with error"
      ELSE "Process terminated (no exit code)"

PumpLog(ev, level, text, body) ==
    [ev |-> ev, level |-> level, text |-> text, body |-> body]
NoLog == PumpLog(NoEvent, "None", "", <<>>)

\* ------------------------------------------------------------- output pump
\* line 80: rx.recv().await yields the next event.
PumpRecv(type) ==
    /\ pump_pc = "recv"
    /\ chan # <<>>
    /\ Head(chan).type = type
    /\ chan' = Tail(chan)
    /\ consumed' = consumed + 1
    /\ UNCHANGED <<edition, env_data_dir, bound_ports, state_child, lock, logs, io, proc,
                   emitted, chan_closed>>
    /\ UNCHANGED <<setupVars, handlerVars>>

\* PumpStdout with the line classified the way a Stderr line is.
PumpStdout_Classifies ==
    /\ PumpRecv("Stdout")
    /\ LET output == from_utf8_lossy(Head(chan).line) IN
         pump_last' = PumpLog(Head(chan), StderrLevel(output), "[PocketBase] {}", trim(output))
    /\ pump_pc' = "recv"

\* lines 82-85
PumpStdout ==
    /\ PumpRecv("Stdout")
    /\ LET output == from_utf8_lossy(Head(chan).line) IN
         pump_last' = PumpLog(Head(chan), "Info", "[PocketBase] {}", trim(output))
    /\ pump_pc' = "recv"

\* lines 86-93
PumpStderr ==
    /\ PumpRecv("Stderr")
    /\ LET output == from_utf8_lossy(Head(chan).line) IN
         pump_last' = PumpLog(Head(chan), StderrLevel(output), "[PocketBase] {}",
                              trim(output))
    /\ pump_pc' = "recv"

\* PumpTerminated without the break: the loop awaits the next event.
PumpTerminated_NoBreak ==
    /\ PumpRecv("Terminated")
    /\ pump_last' = PumpLog(Head(chan), TerminatedLevel(Head(chan).code),
                            TerminatedText(Head(chan).code), <<>>)
    /\ pump_pc' = "recv"

\* PumpTerminated with the shared state cleared when the child is gone.
PumpTerminated_ClearsState ==
    /\ pump_pc = "recv"
    /\ chan # <<>>
    /\ Head(chan).type = "Terminated"
    /\ chan' = Tail(chan)
    /\ consumed' = consumed + 1
    /\ state_child' = None
    /\ pump_last' = PumpLog(Head(chan), TerminatedLevel(Head(chan).code),
                            TerminatedText(Head(chan).code), <<>>)
    /\ pump_pc' = "done"
    /\ UNCHANGED <<edition, env_data_dir, bound_ports, lock, logs, io, proc,
                   emitted, chan_closed>>
    /\ UNCHANGED <<setupVars, handlerVars>>

\* lines 94-105: the message is logged and the loop is left.
PumpTerminated ==
    /\ PumpRecv("Terminated")
    /\ pump_last' = PumpLog(Head(chan), TerminatedLevel(Head(chan).code),
                            TerminatedText(Head(chan).code), <<>>)
    /\ pump_pc' = "done"

\* PumpError with the loop left after the error is logged.
PumpError_Breaks ==
    /\ PumpRecv("Error")
    /\ pump_last' = PumpLog(Head(chan), "Error", "[PocketBase] Process error: {}",
                            Head(chan).line)
    /\ pump_pc' = "done"

\* lines 106-108
PumpError ==
    /\ PumpRecv("Error")
    /\ pump_last' = PumpLog(Head(chan), "Error", "[PocketBase] Process error: {}",
                            Head(chan).line)
    /\ pump_pc' = "recv"

\* line 109: any other variant is ignored.
PumpOther ==
    /\ PumpRecv("Other")
    /\ UNCHANGED <<pump_pc, pump_last>>

\* PumpClosed with the loop going on to await rx although recv() yielded None.
PumpClosed_Spins ==
    /\ pump_pc = "recv"
    /\ chan = <<>>
    /\ chan_closed
    /\ pump_pc' = "recv"
    /\ UNCHANGED <<edition, env_data_dir, bound_ports, state_child, lock, logs, io,
                   pump_last, consumed>>
    /\ UNCHANGED <<setupVars, handlerVars, childVars>>

\* line 80: recv() yields None once rx is empty and closed; the loop ends.
PumpClosed ==
    /\ pump_pc = "recv"
    /\ chan = <<>>
    /\ chan_closed
    /\ pump_pc' = "done"
    /\ UNCHANGED <<edition, env_data_dir, bound_ports, state_child, lock, logs, io,
                   pump_last, consumed>>
    /\ UNCHANGED <<setupVars, handlerVars, childVars>>

\* ----------------------------------------------------------- specification
\* line 33: the state is managed as PocketBaseState { child: None }; nothing
\* has run yet.
InitCommon ==
    /\ edition \in Editions
    /\ setup_pc = "init"
    /\ created = "none"
    /\ probed = "none"
    /\ probes = <<>>
    /\ data_dir = None
    /\ spawn_args = <<>>
    /\ spawns = <<>>
    /\ local_child = None
    /\ state_child = None
    /\ lock = None
    /\ stores = 0
    /\ overwrites = 0
    /\ hpc = [h \in Handlers |-> "idle"]
    /\ taken = [h \in Handlers |-> None]
    /\ after_setup = [h \in Handlers |-> FALSE]
    /\ destroyed_at = "none"
    /\ take_order = <<>>
    /\ kills = [h \in Handlers |-> 0]
    /\ kill_res = [h \in Handlers |-> "none"]
    /\ logs = {}
    /\ io = {}
    /\ proc = "none"
    /\ emitted = 0
    /\ chan = <<>>
    /\ chan_closed = FALSE
    /\ pump_pc = "none"
    /\ pump_last = NoLog
    /\ consumed = 0

\* The host may or may not be able to resolve the data directory, and the
\* port may or may not be taken by another process.
Init ==
    /\ env_data_dir \in {None} \cup {Some(d) : d \in UnicodeDataDirs}
    /\ bound_ports \in {{}, {PocketBasePort}}
    /\ InitCommon

Next ==
    \/ SetupStart
    \/ SetupCreateDir
    \/ SetupProbe
    \/ SetupSpawn
    \/ SetupLock
    \/ SetupStore
    \/ SetupLaunchPump
    \/ SetupFinish
    \/ \E h \in Handlers : HandlerStart(h)
    \/ \E h \in Handlers : HandlerTake(h)
    \/ \E h \in Handlers : HandlerKill(h)
    \/ \E h \in Handlers : HandlerElse(h)
    \/ \E h \in Handlers : HandlerUnlock(h)
    \/ ChildEmit
    \/ ChildExit
    \/ ChildClose
    \/ PumpStdout
    \/ PumpStderr
    \/ PumpTerminated
    \/ PumpError
    \/ PumpOther
    \/ PumpClosed

Spec == Init /\ [][Next]_vars


\* ------------------------------------------- classification specification
\* What the hook has logged and done once it has spawned the child, stored
\* it, launched the pump and returned Ok.
SetupOkLogs ==
    {LogRec(SetupHook, "Info", "Running setup hook"),
     LogRec(SetupHook, "Info", "PocketBase data directory"),
     LogRec(SetupHook, "Debug", "Port availability check"),
     LogRec(SetupHook, "Info", "Starting PocketBase sidecar"),
     LogRec(SetupHook, "Info", "PocketBase sidecar spawned successfully"),
     LogRec(SetupHook, "Debug", "PocketBase child process stored in state"),
     LogRec(SetupHook, "Info", "PocketBase sidecar ready"),
     LogRec(SetupHook, "Info", "Setup completed successfully")}
SetupOkIo ==
    {[by |-> SetupHook, op |-> "log", locked |-> FALSE],
     [by |-> SetupHook, op |-> "spawn", locked |-> FALSE]}

\* The pump is awaiting rx and one event, drawn from every line over
\* Alphabet up to MaxLineLen bytes and every other event, is in flight.
InitClassify ==
    /\ edition \in Editions
    /\ \E d \in UnicodeDataDirs :
         /\ env_data_dir = Some(d)
         /\ data_dir = Some(to_string_lossy(d))
         /\ spawn_args = <<SidecarArgs(to_string_lossy(d))>>
    /\ bound_ports = {}
    /\ setup_pc = "ret_ok"
    /\ created = "ok"
    /\ probed = "free"
    /\ probes = <<[port |-> PocketBasePort, before |-> {}, result |-> TRUE,
                   after |-> {}]>>
    /\ spawns = <<"ok">>
    /\ local_child = None
    /\ state_child = Some(ChildPid)
    /\ lock = None
    /\ stores = 1
    /\ overwrites = 0
    /\ hpc = [h \in Handlers |-> "idle"]
    /\ taken = [h \in Handlers |-> None]
    /\ after_setup = [h \in Handlers |-> FALSE]
    /\ destroyed_at = "none"
    /\ take_order = <<>>
    /\ kills = [h \in Handlers |-> 0]
    /\ kill_res = [h \in Handlers |-> "none"]
    /\ logs = SetupOkLogs
    /\ io = SetupOkIo
    /\ \E ev \in OutputEvents(AllLines) \cup TerminatedEvents :
         /\ chan = <<ev>>
         /\ proc = IF ev.type = "Terminated" THEN "exited" ELSE "running"
         /\ emitted = IF ev.type = "Terminated" THEN 0 ELSE 1
         /\ chan_closed = (ev.type = "Terminated")
    /\ pump_pc = "recv"
    /\ pump_last = NoLog
    /\ consumed = 0

NextClassify ==
    \/ PumpStdout
    \/ PumpStderr
    \/ PumpTerminated
    \/ PumpError
    \/ PumpOther

SpecClassify == InitClassify /\ [][NextClassify]_vars


\* ------------------------------------------------------------------ claims
LastSpawn == IF spawns = <<>> THEN "none" ELSE spawns[Len(spawns)]
Killers == {h \in Handlers : kills[h] > 0}
Takers == {h \in Handlers : taken[h] # None}
LoggedError(h) == \E r \in logs : r.by = h /\ r.level = "Error"
Returned(h) == hpc[h] = "done"
\* The handlers that took after the hook returned Ok, in the order of takes.
TakesAfterSetup == SelectSeq(take_order, LAMBDA h : after_setup[h])

\* C1: after a successful spawn, however many Destroyed events are handled
\* and however they interleave, child.kill() is called exactly once: one
\* handler takes a Some and kills once, every other handler takes None,
\* calls no kill and logs no error.
C1_KillExactlyOnce ==
    /\ Cardinality(Takers) <= 1
    /\ Killers \subseteq Takers
    /\ \A h \in Handlers :
         /\ kills[h] <= 1
         /\ hpc[h] \in {"unlock", "done"} =>
              IF taken[h] # None
                THEN kills[h] = 1
                ELSE kills[h] = 0 /\ ~LoggedError(h)
    /\ (stores > 0 /\ \E h \in Handlers : after_setup[h] /\ Returned(h))
         => Cardinality(Killers) = 1

\* Two Destroyed events were handled after a successful spawn: one handler
\* killed, the other found nothing.
C1_Witness ==
    /\ stores > 0
    /\ \E h1, h2 \in Handlers :
         /\ h1 # h2
         /\ Returned(h1) /\ Returned(h2)
         /\ after_setup[h1] /\ after_setup[h2]
         /\ kills[h1] = 1 /\ taken[h2] = None

\* C2: when the spawn succeeded and the hook returned Ok, the handle is in
\* the shared state until the first take after that; that take finds it and
\* its handler has called kill on it by the time it returns.
C2_FirstKillFindsHandle ==
    (setup_pc = "ret_ok" /\ LastSpawn = "ok") =>
        IF TakesAfterSetup = <<>>
          THEN state_child = Some(ChildPid)
          ELSE LET h == TakesAfterSetup[1] IN
                 /\ taken[h] = Some(ChildPid)
                 /\ hpc[h] \in {"kill", "unlock", "done"}
                 /\ Returned(h) => kills[h] = 1

\* The first handler after a successful startup has returned, having killed.
C2_Witness ==
    /\ setup_pc = "ret_ok" /\ LastSpawn = "ok"
    /\ TakesAfterSetup # <<>>
    /\ Returned(TakesAfterSetup[1])
    /\ kills[TakesAfterSetup[1]] = 1

\* C3: while no handle was ever stored (the hook has not run, skipped the
\* spawn or failed), handling a Destroyed event calls no kill, logs no
\* error and leaves the shared state empty.
C3_KillWithoutHandleIsNoOp ==
    stores = 0 =>
        /\ state_child = None
        /\ \A h \in Handlers :
             /\ kills[h] = 0
             /\ taken[h] = None
             /\ hpc[h] \in {"idle", "lock", "else", "unlock", "done"}
             /\ ~LoggedError(h)

\* One handler returned before the hook ran, another after the hook skipped
\* the spawn.
C3_Witness ==
    /\ stores = 0
    /\ probed = "busy"
    /\ \E h1, h2 \in Handlers :
         /\ Returned(h1) /\ ~after_setup[h1]
         /\ Returned(h2) /\ after_setup[h2]

\* C4: when the probe finds port 8090 taken, nothing is spawned, no pump is
\* launched, no handle is stored and the hook goes on to return Ok.
C4_BusyPortSkipsSpawn ==
    probed = "busy" =>
        /\ spawns = <<>>
        /\ proc = "none"
        /\ pump_pc = "none"
        /\ stores = 0
        /\ state_child = None
        /\ setup_pc \in {"finish", "ret_ok"}

C4_Witness == probed = "busy" /\ setup_pc = "ret_ok"

\* C5: spawn is attempted only after create_dir_all succeeded; when it
\* failed, the port is not probed, nothing is spawned or stored and the hook
\* has returned an error.
C5_CreateDirBeforeSpawn ==
    /\ spawns # <<>> => created = "ok"
    /\ created = "failed" =>
         /\ probed = "none"
         /\ spawns = <<>>
         /\ proc = "none"
         /\ stores = 0
         /\ state_child = None
         /\ setup_pc = "ret_err"

C5_Witness == created = "failed" /\ setup_pc = "ret_err"

\* C6: when spawn() fails, the hook has returned an error, no handle is
\* stored and no pump is launched.
C6_SpawnFailureIsFatal ==
    LastSpawn = "err" =>
        /\ setup_pc = "ret_err"
        /\ stores = 0
        /\ state_child = None
        /\ local_child = None
        /\ proc = "none"
        /\ pump_pc = "none"

C6_Witness == LastSpawn = "err" /\ setup_pc = "ret_err"

\* C7: when child.kill() fails, the handler logs it at Error level and goes
\* on to return; the handle it took is not put back.
C7_KillFailureLoggedOnly ==
    \A h \in Handlers :
        kill_res[h] = "err" =>
            /\ LogRec(h, "Error", "Failed to stop PocketBase sidecar") \in logs
            /\ hpc[h] \in {"unlock", "done"}
            /\ taken[h] # None
            /\ state_child = None

C7_Witness == \E h \in Handlers : kill_res[h] = "err" /\ Returned(h) /\ lock = None

\* C8: no I/O operation (spawn, kill, log write) is performed by a caller
\* that holds the state mutex.
C8_NoIoUnderLock == \A r \in io : ~r.locked

\* C9: the shared state holds at most one handle, the hook stores a handle
\* at most once, only one a successful spawn returned, and never over a
\* handle that is still stored.
C9_StoredAtMostOnce ==
    /\ Len(state_child) <= 1
    /\ stores <= 1
    /\ stores <= Len(SelectSeq(spawns, LAMBDA r : r = "ok"))
    /\ overwrites = 0
    /\ state_child # None => state_child = Some(ChildPid) /\ stores = 1

C9_Witness == stores = 1 /\ state_child = Some(ChildPid) /\ setup_pc = "ret_ok"

\* char::to_ascii_lowercase, for the case-insensitive reading of a line.
to_lowercase(s) ==
    [i \in 1..Len(s) |-> IF s[i] \in 65..90 THEN s[i] + 32 ELSE s[i]]

\* C10: a Stderr line is logged at Error level iff the decoded line contains
\* "error" in any mix of upper and lower case, and at Warn level otherwise.
C10_StderrCaseInsensitive ==
    pump_last.ev.type = "Stderr" =>
        /\ pump_last.level \in {"Error", "Warn"}
        /\ pump_last.level = "Error" <=>
             contains(to_lowercase(from_utf8_lossy(pump_last.ev.line)), str_error)

\* C11: a Terminated event is logged at Info level when its exit code is
\* present and zero, at Error level when it is present and not zero, and at
\* Warn level when there is no exit code.
C11_TerminatedByExitCode ==
    pump_last.ev.type = "Terminated" =>
        LET code == pump_last.ev.code IN
          /\ code = Some(0) => pump_last.level = "Info"
          /\ (code # None /\ code # Some(0)) => pump_last.level = "Error"
          /\ code = None => pump_last.level = "Warn"

\* A termination without exit code was logged at Warn level.
C11_Witness ==
    /\ pump_last.ev.type = "Terminated"
    /\ pump_last.ev.code = None
    /\ pump_last.level = "Warn"

\* C12: a Stdout line is logged at Info level whatever it contains.
C12_StdoutAlwaysInfo ==
    pump_last.ev.type = "Stdout" => pump_last.level = "Info"

\* A Stdout line that contains "error" was logged at Info level.
C12_Witness ==
    /\ pump_last.ev.type = "Stdout"
    /\ contains(from_utf8_lossy(pump_last.ev.line), str_error)
    /\ pump_last.level = "Info"

\* ------------------------------------------------------ probe specification
\* Ports probed by the probe specification.
ProbePorts == {8089, 8090, 8091}

\* lines 11-15: one call of is_port_available(p).
Probe(p) ==
    /\ Len(probes) < MaxProbes
    /\ probes' = Append(probes, ProbeRec(p))
    /\ bound_ports' = bound_after_probe(p)
    /\ UNCHANGED <<edition, env_data_dir, setup_pc, created, probed, data_dir,
                   spawn_args, spawns, local_child, state_child, lock, stores,
                   overwrites, logs, io>>
    /\ UNCHANGED <<handlerVars, childVars, pumpVars>>

\* Any set of the ports is taken by other listeners; nothing else has run.
InitProbe ==
    /\ env_data_dir \in {Some(d) : d \in UnicodeDataDirs}
    /\ bound_ports \in SUBSET ProbePorts
    /\ InitCommon

NextProbe == \E p \in ProbePorts : Probe(p)

SpecProbe == InitProbe /\ [][NextProbe]_vars

\* C13: is_port_available(p) returns false when a listener is bound to p
\* and true when p is free, it leaves the set of bound ports as it found it,
\* and so every later probe of the same port returns what the first did.
C13_ProbeLeavesNoState ==
    /\ \A i \in 1..Len(probes) :
         /\ probes[i].result = (probes[i].port \notin probes[i].before)
         /\ probes[i].after = probes[i].before
         /\ i = Len(probes) => bound_ports = probes[i].after
         /\ i > 1 => probes[i].before = probes[i - 1].after
    /\ \A i, j \in 1..Len(probes) :
         probes[i].port = probes[j].port => probes[i].result = probes[j].result

\* A free port was probed three times in a row, a taken port in between or
\* not, and each probe returned true.
C13_Witness ==
    /\ Len(probes) >= 3
    /\ \E i, j, k \in 1..Len(probes) :
         /\ i < j /\ j < k
         /\ probes[i].port = probes[j].port /\ probes[j].port = probes[k].port
         /\ probes[i].result /\ probes[j].result /\ probes[k].result
    /\ bound_ports # {}

\* ------------------------------------------------ data directory specification
\* As Init, with every data directory the host may resolve.
InitDirs ==
    /\ env_data_dir \in {None} \cup {Some(d) : d \in DataDirs}
    /\ bound_ports \in {{}, {PocketBasePort}}
    /\ InitCommon

SpecDirs == InitDirs /\ [][Next]_vars

\* The decimal digits of a natural number, as characters.
RECURSIVE Digits(_)
Digits(n) == IF n < 10 THEN <<48 + n>> ELSE Digits(n \div 10) \o <<48 + (n % 10)>>

\* "127.0.0.1:<port>"
LoopbackAddr(port) == <<49, 50, 55, 46, 48, 46, 48, 46, 49, 58>> \o Digits(port)

\* The UTF-8 encoding of a string of ASCII characters and U+FFFD: the bytes of
\* the path the string names.
RECURSIVE encode_utf8(_)
encode_utf8(s) ==
    IF s = <<>> THEN <<>>
    ELSE (IF s[1] < 128 THEN <<s[1]>> ELSE <<239, 191, 189>>) \o encode_utf8(Tail(s))

\* C14: every spawn is given exactly "serve", "--http", "127.0.0.1:8090",
\* "--dir", data_dir, in this order, where data_dir names the directory the
\* hook resolved and created and the port is the one the hook probed.
C14_SpawnArguments ==
    \A i \in 1..Len(spawn_args) :
        LET args == spawn_args[i] IN
          /\ Len(args) = 5
          /\ args[1] = "serve"
          /\ args[2] = "--http"
          /\ probes # <<>>
          /\ args[3] = LoopbackAddr(probes[Len(probes)].port)
          /\ args[4] = "--dir"
          /\ created = "ok"
          /\ encode_utf8(args[5]) = env_data_dir[1]

\* C15: the step in which the pump receives a Terminated event logs it and
\* ends the task, and once the task has ended no step receives or logs
\* anything more, whatever arrives on rx.
C15_PumpStopsAtTerminated ==
    [][/\ (pump_pc = "recv" /\ chan # <<>> /\ Head(chan).type = "Terminated"
             /\ consumed' # consumed)
          => /\ pump_pc' = "done"
             /\ pump_last'.ev = Head(chan)
             /\ pump_last'.level \in {"Info", "Warn", "Error"}
       /\ (pump_last.ev.type = "Terminated" \/ pump_pc = "done")
          => /\ pump_pc' = "done"
             /\ pump_last' = pump_last
             /\ consumed' = consumed]_vars

\* The pump ended at a Terminated event and an event that arrived afterwards
\* is left on rx.
C15_Witness ==
    /\ pump_pc = "done"
    /\ pump_last.ev.type = "Terminated"
    /\ chan # <<>>

\* C16: no step of the pump changes the shared state; when the pump has
\* ended and no handler has taken the handle, the handle is still stored.
C16_PumpLeavesState ==
    /\ []((pump_pc = "done" /\ Takers = {}) => state_child = Some(ChildPid))
    /\ [][pumpVars' # pumpVars => state_child' = state_child]_vars

\* The child exited on its own, the pump logged it and ended, no kill was
\* called and the handle is still stored.
C16_Witness ==
    /\ proc = "exited"
    /\ pump_pc = "done"
    /\ pump_last.ev.type = "Terminated"
    /\ Killers = {}
    /\ state_child = Some(ChildPid)

\* ---------------------------------------------------- fair specification
\* A step of the pump task.
PumpStep ==
    \/ PumpStdout
    \/ PumpStderr
    \/ PumpTerminated
    \/ PumpError
    \/ PumpOther
    \/ PumpClosed

\* A killed child exits.
KilledChildExits == proc = "killed" /\ ChildExit

\* The async runtime keeps running the pump task while it can take a step
\* (line 78); the operating system ends a child that was killed and the
\* senders of rx are dropped once the child is gone.
SpecFair ==
    /\ Spec
    /\ WF_vars(PumpStep)
    /\ WF_vars(KilledChildExits)
    /\ WF_vars(ChildClose)

\* C17: the pump task ends only in a step that receives Terminated or finds
\* rx empty and closed, never otherwise; and once a kill has succeeded the
\* pump task eventually ends.
C17_PumpEndsAfterKill ==
    /\ [][(pump_pc = "recv" /\ pump_pc' = "done")
            => \/ chan # <<>> /\ Head(chan).type = "Terminated"
               \/ chan = <<>> /\ chan_closed]_vars
    /\ (\E h \in Handlers : kill_res[h] = "ok") ~> (pump_pc = "done")

\* A kill succeeded on the running child and the pump has ended.
C17_Witness ==
    /\ \E h \in Handlers : kill_res[h] = "ok"
    /\ proc = "exited"
    /\ pump_pc = "done"
    /\ chan_closed

\* C18: a step that receives a Stdout, Stderr, Error or unrecognized event
\* leaves the pump awaiting rx; an Error event is logged at Error level, an
\* unrecognized event logs nothing; and a pump awaiting a non-empty rx can
\* always receive, also after an Error event.
C18_PumpGoesOn ==
    /\ [][(pump_pc = "recv" /\ chan # <<>> /\ consumed' # consumed
             /\ Head(chan).type \in {"Stdout", "Stderr", "Error", "Other"})
            => /\ pump_pc' = "recv"
               /\ consumed' = consumed + 1
               /\ Head(chan).type = "Other" => pump_last' = pump_last
               /\ Head(chan).type # "Other" => pump_last'.ev = Head(chan)
               /\ Head(chan).type = "Error" => pump_last'.level = "Error"]_vars
    /\ []((pump_pc = "recv" /\ chan # <<>>) => ENABLED PumpStep)

\* Two events were received, one of them the Error sent when waiting for
\* the child failed, the other the one line the child wrote; the line was
\* logged last, so it was received after the Error.
C18_Witness ==
    /\ consumed = 2
    /\ emitted = 1
    /\ proc = "exited"
    /\ pump_pc = "recv"
    /\ pump_last.ev.type \in {"Stdout", "Stderr"}

\* C19: from the moment a window-destruction handler has taken a Some out of
\* the state, state.child is None and stays None, and the one store of the
\* setup hook remains the only one, whether kill returned Ok or Err.
C19_EmptyAfterTake ==
    /\ [](Takers # {} => state_child = None /\ stores = 1)
    /\ [][Takers # {} => Takers' = Takers /\ state_child' = None /\ stores' = stores]_vars

\* A handler took the handle, its kill failed and it returned; a later
\* handler ran to its end on the empty state.
C19_Witness ==
    \E h \in Handlers : \E g \in Handlers \ {h} :
        /\ taken[h] = Some(ChildPid)
        /\ kill_res[h] = "err"
        /\ Returned(h)
        /\ Returned(g)
        /\ taken[g] = None
        /\ after_setup[g]
        /\ state_child = None

\* C20: when the child has exited on its own before the first Destroyed
\* event that follows the hook, the handle is still in the state; a handler
\* of such an event finds it (or an earlier one has), the handler that
\* took it calls kill exactly once, against the exited process, no other
\* handler kills, a failed kill is logged at Error level, and the handler
\* goes on to drop the guard and return.
C20_StaleHandleKilledOnce ==
    /\ (proc = "exited" /\ Takers = {} /\ stores = 1) => state_child = Some(ChildPid)
    /\ \A h \in Handlers :
         (destroyed_at = "exited" /\ after_setup[h] /\ hpc[h] \notin {"idle", "lock"})
           => /\ \E g \in Handlers : taken[g] = Some(ChildPid)
              /\ (\A g \in Handlers \ {h} : hpc[g] \in {"idle", "lock"})
                   => taken[h] = Some(ChildPid)
              /\ taken[h] = Some(ChildPid)
                   => \/ hpc[h] = "kill" /\ kills[h] = 0 /\ kill_res[h] = "none"
                      \/ /\ hpc[h] \in {"unlock", "done"}
                         /\ kills[h] = 1
                         /\ Killers = {h}
                         /\ kill_res[h] \in {"ok", "err"}
                         /\ kill_res[h] = "err" => LoggedError(h)
                         /\ proc = "exited"

\* The child exited on its own, then a Destroyed event arrived; its
\* handler took the handle, killed once, the kill failed and was logged,
\* and the handler returned.
C20_Witness ==
    \E h \in Handlers :
        /\ destroyed_at = "exited"
        /\ after_setup[h]
        /\ taken[h] = Some(ChildPid)
        /\ kills[h] = 1
        /\ kill_res[h] = "err"
        /\ LoggedError(h)
        /\ Returned(h)
        /\ lock = None

====
